---- MODULE Spec2Model ----
(***************************************************************************)
(* Lazily evaluated camera transform cache (src/src/world/Camera.ts).      *)
(*                                                                         *)
(* One camera instance is modelled.  Its class (Camera, PerspectiveCamera  *)
(* or OrthographicCamera) is fixed at construction.  Every getter and      *)
(* every mutator of the class is one atomic action.                        *)
(*                                                                         *)
(* The vector / quaternion / matrix primitives come from the package       *)
(* '@uon/math'.  World and view matrices are computed exactly, on integer  *)
(* data: translations lie on the Z axis and orientations are half-turn     *)
(* quaternions, so that compose, inverse, look-at and the quaternion       *)
(* product never leave the integers.  Projection matrices and the product  *)
(* view * projection are kept in closed form (the builder and its          *)
(* arguments), since their entries are not integers.                       *)
(***************************************************************************)
EXTENDS Integers, Sequences, FiniteSets, TLC

(***************************************************************************)
(* Bounds of the model.                                                    *)
(***************************************************************************)
\* number of operations performed on the camera in one run
MaxOps == 4
\* translations are <<0, 0, z>> with z in -MaxCoord .. MaxCoord
MaxCoord == 1

(***************************************************************************)
(* enum DirtyMatrix and the bitwise operators used on dirtyFlag.           *)
(***************************************************************************)
World == 1
View == 2
Projection == 4

RECURSIVE BitAnd(_, _)
BitAnd(a, b) ==
    IF a = 0 \/ b = 0 THEN 0
    ELSE ((a % 2) * (b % 2)) + 2 * BitAnd(a \div 2, b \div 2)

RECURSIVE BitOr(_, _)
BitOr(a, b) ==
    IF a = 0 THEN b
    ELSE IF b = 0 THEN a
    ELSE (IF (a % 2) + (b % 2) > 0 THEN 1 ELSE 0) + 2 * BitOr(a \div 2, b \div 2)

\* a & ~b, for non-negative a and b
BitAndNot(a, b) == a - BitAnd(a, b)

All == BitOr(BitOr(World, View), Projection)

(***************************************************************************)
(* Values.  A matrix value is a record [kind, e]:                          *)
(*   kind = "matrix"       e = the 16 entries, row by row                  *)
(*   kind = "perspective"  e = <<fov, aspect, near, far>> as handed to     *)
(*                         makePerspective                                 *)
(*   kind = "orthographic" e = <<left, right, top, bottom, near, far>> as  *)
(*                         handed to makeOrthographic                      *)
(*   kind = "product"      e = <<a, b>>, the matrix a * b                  *)
(* The result of an operation is a matrix value, or                       *)
(*   kind = "void"         e = <<>>        (a setter or method returned)   *)
(*   kind = "throw"        e = <<message>> (the operation threw)           *)
(***************************************************************************)
M4(e) == [kind |-> "matrix", e |-> e]
Void == [kind |-> "void", e |-> <<>>]
Throw(msg) == [kind |-> "throw", e |-> <<msg>>]

\* entry (r, c) of a "matrix" value, r and c in 1..4
At(m, r, c) == m.e[4 * (r - 1) + c]

Identity ==
    M4(<<1, 0, 0, 0,
         0, 1, 0, 0,
         0, 0, 1, 0,
         0, 0, 0, 1>>)

Zero3 == <<0, 0, 0>>
UnitX == <<1, 0, 0>>
UnitY == <<0, 1, 0>>
UnitZ == <<0, 0, 1>>
One == <<1, 1, 1>>
IdentityQuat == <<0, 0, 0, 1>>

Abs(n) == IF n < 0 THEN -n ELSE n

(***************************************************************************)
(* Vector3                                                                 *)
(***************************************************************************)
Add(a, b) == <<a[1] + b[1], a[2] + b[2], a[3] + b[3]>>
Sub(a, b) == <<a[1] - b[1], a[2] - b[2], a[3] - b[3]>>
MultiplyScalar(v, s) == <<v[1] * s, v[2] * s, v[3] * s>>
Cross(a, b) ==
    <<a[2] * b[3] - a[3] * b[2],
      a[3] * b[1] - a[1] * b[3],
      a[1] * b[2] - a[2] * b[1]>>

\* the length of a vector with at most one non-zero component
AxisLength(v) == Abs(v[1]) + Abs(v[2]) + Abs(v[3])
Normalize(v) ==
    <<v[1] \div AxisLength(v), v[2] \div AxisLength(v), v[3] \div AxisLength(v)>>

\* v rotated by the quaternion q = <<x, y, z, w>>
ApplyQuaternion(v, q) ==
    LET ix == q[4] * v[1] + q[2] * v[3] - q[3] * v[2]
        iy == q[4] * v[2] + q[3] * v[1] - q[1] * v[3]
        iz == q[4] * v[3] + q[1] * v[2] - q[2] * v[1]
        iw == 0 - q[1] * v[1] - q[2] * v[2] - q[3] * v[3]
    IN  <<ix * q[4] - iw * q[1] - iy * q[3] + iz * q[2],
          iy * q[4] - iw * q[2] - iz * q[1] + ix * q[3],
          iz * q[4] - iw * q[3] - ix * q[2] + iy * q[1]>>

(***************************************************************************)
(* Quaternion.  Angles are counted in half turns (1 = pi radians).         *)
(***************************************************************************)
\* sin and cos of h quarter turns
SinQuarter(h) == <<0, 1, 0, -1>>[(h % 4) + 1]
CosQuarter(h) == <<1, 0, -1, 0>>[(h % 4) + 1]

\* the rotation by angle (in half turns) about the unit vector axis:
\* <<axis * sin(angle / 2), cos(angle / 2)>>
FromAxisAngle(axis, angle) ==
    <<axis[1] * SinQuarter(angle), axis[2] * SinQuarter(angle),
      axis[3] * SinQuarter(angle), CosQuarter(angle)>>

\* the quaternion product a * b
QuatMultiply(a, b) ==
    <<a[1] * b[4] + a[4] * b[1] + a[2] * b[3] - a[3] * b[2],
      a[2] * b[4] + a[4] * b[2] + a[3] * b[1] - a[1] * b[3],
      a[3] * b[4] + a[4] * b[3] + a[1] * b[2] - a[2] * b[1],
      a[4] * b[4] - a[1] * b[1] - a[2] * b[2] - a[3] * b[3]>>

\* integer square root of a perfect square
Sqrt(n) == CHOOSE r \in 0..n : r * r = n

\* the quaternion of the rotation in the upper 3x3 block of m
FromRotationMatrix(m) ==
    LET m11 == At(m, 1, 1)  m12 == At(m, 1, 2)  m13 == At(m, 1, 3)
        m21 == At(m, 2, 1)  m22 == At(m, 2, 2)  m23 == At(m, 2, 3)
        m31 == At(m, 3, 1)  m32 == At(m, 3, 2)  m33 == At(m, 3, 3)
        trace == m11 + m22 + m33
    IN  IF trace > 0 THEN
            LET s == 2 * Sqrt(trace + 1)
            IN  <<(m32 - m23) \div s, (m13 - m31) \div s,
                  (m21 - m12) \div s, s \div 4>>
        ELSE IF m11 > m22 /\ m11 > m33 THEN
            LET s == 2 * Sqrt(1 + m11 - m22 - m33)
            IN  <<s \div 4, (m12 + m21) \div s, (m13 + m31) \div s,
                  (m32 - m23) \div s>>
        ELSE IF m22 > m33 THEN
            LET s == 2 * Sqrt(1 + m22 - m11 - m33)
            IN  <<(m12 + m21) \div s, s \div 4, (m23 + m32) \div s,
                  (m13 - m31) \div s>>
        ELSE
            LET s == 2 * Sqrt(1 + m33 - m11 - m22)
            IN  <<(m13 + m31) \div s, (m23 + m32) \div s, s \div 4,
                  (m21 - m12) \div s>>

(***************************************************************************)
(* Matrix4                                                                 *)
(***************************************************************************)
\* the matrix of translation t, rotation q and scale s
Compose(t, q, s) ==
    LET x == q[1]  y == q[2]  z == q[3]  w == q[4]
        xx == x * (x + x)  xy == x * (y + y)  xz == x * (z + z)
        yy == y * (y + y)  yz == y * (z + z)  zz == z * (z + z)
        wx == w * (x + x)  wy == w * (y + y)  wz == w * (z + z)
    IN  M4(<<(1 - (yy + zz)) * s[1], (xy - wz) * s[2], (xz + wy) * s[3], t[1],
             (xy + wz) * s[1], (1 - (xx + zz)) * s[2], (yz - wx) * s[3], t[2],
             (xz - wy) * s[1], (yz + wx) * s[2], (1 - (xx + yy)) * s[3], t[3],
             0, 0, 0, 1>>)

\* determinant of the 3x3 matrix left when row r and column c are removed
Minor(m, r, c) ==
    LET rs == [i \in 1..3 |-> IF i < r THEN i ELSE i + 1]
        cs == [j \in 1..3 |-> IF j < c THEN j ELSE j + 1]
        a(i, j) == At(m, rs[i], cs[j])
    IN  a(1, 1) * (a(2, 2) * a(3, 3) - a(2, 3) * a(3, 2))
      - a(1, 2) * (a(2, 1) * a(3, 3) - a(2, 3) * a(3, 1))
      + a(1, 3) * (a(2, 1) * a(3, 2) - a(2, 2) * a(3, 1))

Cofactor(m, r, c) ==
    (IF (r + c) % 2 = 0 THEN 1 ELSE -1) * Minor(m, r, c)

Determinant(m) ==
    At(m, 1, 1) * Cofactor(m, 1, 1) + At(m, 1, 2) * Cofactor(m, 1, 2)
  + At(m, 1, 3) * Cofactor(m, 1, 3) + At(m, 1, 4) * Cofactor(m, 1, 4)

\* the inverse of m: the adjugate divided by the determinant
Inverse(m) ==
    LET det == Determinant(m)
    IN  M4([k \in 1..16 |->
               Cofactor(m, ((k - 1) % 4) + 1, ((k - 1) \div 4) + 1) \div det])

\* the product a * b; entry by entry when both are given by their entries
Multiply(a, b) ==
    IF a.kind = "matrix" /\ b.kind = "matrix" THEN
        M4([k \in 1..16 |->
               LET r == ((k - 1) \div 4) + 1
                   c == ((k - 1) % 4) + 1
               IN  At(a, r, 1) * At(b, 1, c) + At(a, r, 2) * At(b, 2, c)
                 + At(a, r, 3) * At(b, 3, c) + At(a, r, 4) * At(b, 4, c)])
    ELSE [kind |-> "product", e |-> <<a, b>>]

\* the rotation matrix looking from eye towards target
LookAt(eye, target, up) ==
    LET z == Normalize(Sub(eye, target))
        x == Normalize(Cross(up, z))
        y == Cross(z, x)
    IN  M4(<<x[1], y[1], z[1], 0,
             x[2], y[2], z[2], 0,
             x[3], y[3], z[3], 0,
             0, 0, 0, 1>>)

MakePerspective(fov, aspect, near, far) ==
    [kind |-> "perspective", e |-> <<fov, aspect, near, far>>]

MakeOrthographic(left, right, top, bottom, near, far) ==
    [kind |-> "orthographic", e |-> <<left, right, top, bottom, near, far>>]

(***************************************************************************)
(* Inputs.  Clip distances (near, far) are only stored and forwarded by    *)
(* the camera; they are represented by their decimal exponent, so that the *)
(* defaults 1e-6 and 1e27 are -6 and 27.                                   *)
(***************************************************************************)
Coords == (0 - MaxCoord)..MaxCoord
Translations == {<<0, 0, z>> : z \in Coords}
TranslationValues == {<<0, 0, MaxCoord>>}
OrientationValues == {<<0, 1, 0, 0>>}
TranslateAxes == {UnitZ}
Distances == {-1, 1}
RotateAxes == {UnitX, UnitY}
Angles == {1}
LookAtPoints == {<<0, 0, 0 - (MaxCoord + 1)>>, <<0, 0, MaxCoord + 1>>}

FovValues == {90}
AspectValues == {2}
ZoomValues == {2}
NearValues == {0}
FarValues == {3}
LeftValues == {-2}
RightValues == {2}
TopValues == {2}
BottomValues == {-2}

\* an optional constructor argument: <<>> is undefined, <<v>> is v
Undefined == <<>>
OrDefault(arg, default) == IF arg # Undefined THEN arg[1] ELSE default

\* argument lists handed to the constructors
PerspectiveArgs == {<<Undefined, Undefined, <<-1>>, <<2>>>>}
OrthographicArgs == {<<-1, 1, 1, -1, Undefined, Undefined>>}

DefaultFov == 50
DefaultAspect == 1
DefaultNear == -6
DefaultFar == 27
DefaultZoom == 1

(***************************************************************************)
(* State.                                                                  *)
(*   cam        the camera object: its class (variant) and its fields      *)
(*   nops       number of operations performed so far                      *)
(*   op         the last operation performed ("new" after construction)    *)
(*   ret        what the last operation returned or threw                  *)
(*   calls      the matrix computations the last operation performed       *)
(*   entryFlag  dirtyFlag on entry to the last operation                   *)
(*   lastRet    for world, view and projection, the matrix the client's    *)
(*              last read of the getter returned                           *)
(*   written    for world, view and projection, whether an input of the    *)
(*              matrix was written since the client's last read of it      *)
(*   pc         the statements a getter in progress still has to execute,  *)
(*              innermost call last; <<>> when no getter is in progress    *)
(*   racedAt    the statement a getter was about to execute when a mutator *)
(*              first ran inside it; "none" if that never happened         *)
(***************************************************************************)
VARIABLES cam, nops, op, ret, calls, entryFlag, lastRet, written, pc, racedAt

vars == <<cam, nops, op, ret, calls, entryFlag, lastRet, written, pc, racedAt>>

Getters == {"world", "view", "projection"}

(***************************************************************************)
(* Constructors.                                                           *)
(***************************************************************************)

\* the base constructor starting with the Projection bit clear
CameraFields_NoProjectionBit ==
    [_translation |-> Zero3,
     _orientation |-> <<0, 0, 0, 1>>,
     _up |-> UnitY,
     _world |-> Identity,
     _view |-> Identity,
     _projection |-> Identity,
     _viewproj |-> Identity,
     dirtyFlag |-> BitOr(World, View)]

CameraFields ==
    [_translation |-> Zero3,
     _orientation |-> <<0, 0, 0, 1>>,
     _up |-> UnitY,
     _world |-> Identity,
     _view |-> Identity,
     _projection |-> Identity,
     _viewproj |-> Identity,
     dirtyFlag |-> All]

NewCamera ==
    [variant |-> "Camera",
     _translation |-> CameraFields._translation,
     _orientation |-> CameraFields._orientation,
     _up |-> CameraFields._up,
     _world |-> CameraFields._world,
     _view |-> CameraFields._view,
     _projection |-> CameraFields._projection,
     _viewproj |-> CameraFields._viewproj,
     dirtyFlag |-> CameraFields.dirtyFlag]

NewPerspectiveCamera(fov, aspect, near, far) ==
    [variant |-> "PerspectiveCamera",
     _translation |-> CameraFields._translation,
     _orientation |-> CameraFields._orientation,
     _up |-> CameraFields._up,
     _world |-> CameraFields._world,
     _view |-> CameraFields._view,
     _projection |-> CameraFields._projection,
     _viewproj |-> CameraFields._viewproj,
     dirtyFlag |-> CameraFields.dirtyFlag,
     _fov |-> OrDefault(fov, DefaultFov),
     _aspect |-> OrDefault(aspect, DefaultAspect),
     _near |-> OrDefault(near, DefaultNear),
     _far |-> OrDefault(far, DefaultFar),
     _zoom |-> DefaultZoom]

NewOrthographicCamera(left, right, top, bottom, near, far) ==
    [variant |-> "OrthographicCamera",
     _translation |-> CameraFields._translation,
     _orientation |-> CameraFields._orientation,
     _up |-> CameraFields._up,
     _world |-> CameraFields._world,
     _view |-> CameraFields._view,
     _projection |-> CameraFields._projection,
     _viewproj |-> CameraFields._viewproj,
     dirtyFlag |-> CameraFields.dirtyFlag,
     _left |-> left,
     _right |-> right,
     _top |-> top,
     _bottom |-> bottom,
     _near |-> OrDefault(near, DefaultNear),
     _far |-> OrDefault(far, DefaultFar),
     _zoom |-> DefaultZoom]

Cameras ==
    {NewCamera}
    \cup {NewPerspectiveCamera(a[1], a[2], a[3], a[4]) : a \in PerspectiveArgs}
    \cup {NewOrthographicCamera(a[1], a[2], a[3], a[4], a[5], a[6]) :
              a \in OrthographicArgs}

Init ==
    /\ cam \in Cameras
    /\ nops = 0
    /\ op = "new"
    /\ ret = Void
    /\ calls = <<>>
    /\ entryFlag = All
    /\ lastRet = [g \in Getters |-> Void]
    /\ written = [g \in Getters |-> FALSE]
    /\ pc = <<>>
    /\ racedAt = "none"

(***************************************************************************)
(* Getters.  A getter takes the camera c and yields                        *)
(*   [this |-> the camera afterwards, value |-> what it returns or throws, *)
(*    calls |-> the matrix computations it performed, in order].           *)
(***************************************************************************)

\* GetWorld that clears the View bit together with the World bit
GetWorld_ClearsView(c) ==
    IF BitAnd(c.dirtyFlag, World) # 0 THEN
        LET c1 == [c EXCEPT !._world = Compose(c._translation, c._orientation, One)]
            c2 == [c1 EXCEPT !.dirtyFlag = BitAndNot(c1.dirtyFlag, BitOr(World, View))]
        IN  [this |-> c2, value |-> c2._world, calls |-> <<"compose">>]
    ELSE [this |-> c, value |-> c._world, calls |-> <<>>]

GetWorld(c) ==
    IF BitAnd(c.dirtyFlag, World) # 0 THEN
        LET c1 == [c EXCEPT !._world = Compose(c._translation, c._orientation, One)]
            c2 == [c1 EXCEPT !.dirtyFlag = BitAndNot(c1.dirtyFlag, World)]
        IN  [this |-> c2, value |-> c2._world, calls |-> <<"compose">>]
    ELSE [this |-> c, value |-> c._world, calls |-> <<>>]



\* GetView that recomputes but leaves the View bit set
GetView_NoClear(c) ==
    IF BitAnd(c.dirtyFlag, BitOr(World, View)) # 0 THEN
        LET w == GetWorld(c)
            c1 == [w.this EXCEPT !._view = Inverse(w.value)]
        IN  [this |-> c1, value |-> c1._view, calls |-> w.calls \o <<"inverse">>]
    ELSE [this |-> c, value |-> c._view, calls |-> <<>>]

\* GetView that inverts the stored world matrix without reading the world getter
GetView_StoredWorld(c) ==
    IF BitAnd(c.dirtyFlag, BitOr(World, View)) # 0 THEN
        LET c1 == [c EXCEPT !._view = Inverse(c._world)]
            c2 == [c1 EXCEPT !.dirtyFlag = BitAndNot(c1.dirtyFlag, View)]
        IN  [this |-> c2, value |-> c2._view, calls |-> <<"inverse">>]
    ELSE [this |-> c, value |-> c._view, calls |-> <<>>]

GetView(c) ==
    IF BitAnd(c.dirtyFlag, BitOr(World, View)) # 0 THEN
        LET w == GetWorld(c)
            c1 == [w.this EXCEPT !._view = Inverse(w.value)]
            c2 == [c1 EXCEPT !.dirtyFlag = BitAndNot(c1.dirtyFlag, View)]
        IN  [this |-> c2, value |-> c2._view, calls |-> w.calls \o <<"inverse">>]
    ELSE [this |-> c, value |-> c._view, calls |-> <<>>]

\* 2 * atan(tan(fov / 2) / zoom) in degrees, kept in closed form
EffectiveFov(fov, zoom) == <<fov, zoom>>


\* updateProjection whose orthographic box ignores the zoom
UpdateProjection_NoZoom(c) ==
    IF c.variant = "PerspectiveCamera" THEN
        [this |-> [c EXCEPT !._projection =
                      MakePerspective(EffectiveFov(c._fov, c._zoom),
                                      c._aspect, c._near, c._far)],
         value |-> Void]
    ELSE IF c.variant = "OrthographicCamera" THEN
        [this |-> [c EXCEPT !._projection =
                      MakeOrthographic(c._left, c._right, c._top, c._bottom,
                                       c._near, c._far)],
         value |-> Void]
    ELSE [this |-> c, value |-> Throw("Not Implemented")]

\* updateProjection of the three classes: the camera and the outcome
UpdateProjection(c) ==
    IF c.variant = "PerspectiveCamera" THEN
        [this |-> [c EXCEPT !._projection =
                      MakePerspective(EffectiveFov(c._fov, c._zoom),
                                      c._aspect, c._near, c._far)],
         value |-> Void]
    ELSE IF c.variant = "OrthographicCamera" THEN
        [this |-> [c EXCEPT !._projection =
                      MakeOrthographic(c._left * c._zoom, c._right * c._zoom,
                                       c._top * c._zoom, c._bottom * c._zoom,
                                       c._near, c._far)],
         value |-> Void]
    ELSE [this |-> c, value |-> Throw("Not Implemented")]


\* GetProjection that tests the World bit instead of the Projection bit
GetProjection_WorldBit(c) ==
    IF BitAnd(c.dirtyFlag, World) # 0 THEN
        LET u == UpdateProjection(c)
            c2 == [u.this EXCEPT !.dirtyFlag = BitAndNot(u.this.dirtyFlag, Projection)]
        IN  IF u.value.kind = "throw"
            THEN [this |-> u.this, value |-> u.value, calls |-> <<"updateProjection">>]
            ELSE [this |-> c2, value |-> c2._projection, calls |-> <<"updateProjection">>]
    ELSE [this |-> c, value |-> c._projection, calls |-> <<>>]

\* GetProjection that clears the Projection bit before it calls updateProjection
GetProjection_ClearFirst(c) ==
    IF BitAnd(c.dirtyFlag, Projection) # 0 THEN
        LET c1 == [c EXCEPT !.dirtyFlag = BitAndNot(c.dirtyFlag, Projection)]
            u == UpdateProjection(c1)
        IN  IF u.value.kind = "throw"
            THEN [this |-> u.this, value |-> u.value, calls |-> <<"updateProjection">>]
            ELSE [this |-> u.this, value |-> u.this._projection,
                  calls |-> <<"updateProjection">>]
    ELSE [this |-> c, value |-> c._projection, calls |-> <<>>]

GetProjection(c) ==
    IF BitAnd(c.dirtyFlag, Projection) # 0 THEN
        LET u == UpdateProjection(c)
            c2 == [u.this EXCEPT !.dirtyFlag = BitAndNot(u.this.dirtyFlag, Projection)]
        IN  IF u.value.kind = "throw"
            THEN [this |-> u.this, value |-> u.value, calls |-> <<"updateProjection">>]
            ELSE [this |-> c2, value |-> c2._projection, calls |-> <<"updateProjection">>]
    ELSE [this |-> c, value |-> c._projection, calls |-> <<>>]



\* GetViewProjection that recombines on every read
GetViewProjection_Always(c) ==
    LET v == GetView(c)
        c1 == [v.this EXCEPT !._viewproj = v.value]
        p == GetProjection(c1)
        c2 == [p.this EXCEPT !._viewproj = Multiply(p.this._viewproj, p.value)]
    IN  IF p.value.kind = "throw"
        THEN [this |-> p.this, value |-> p.value, calls |-> v.calls \o p.calls]
        ELSE [this |-> c2, value |-> c2._viewproj,
              calls |-> v.calls \o p.calls \o <<"multiply">>]

\* GetViewProjection that tests dirtyFlag after the nested view and
\* projection reads instead of before them
GetViewProjection_CheckAfter(c) ==
    LET v == GetView(c)
        p == GetProjection(v.this)
        c2 == [p.this EXCEPT !._viewproj = Multiply(v.value, p.value)]
    IN  IF p.value.kind = "throw"
        THEN [this |-> p.this, value |-> p.value, calls |-> v.calls \o p.calls]
        ELSE IF p.this.dirtyFlag > 0
        THEN [this |-> c2, value |-> c2._viewproj,
              calls |-> v.calls \o p.calls \o <<"multiply">>]
        ELSE [this |-> p.this, value |-> p.this._viewproj,
              calls |-> v.calls \o p.calls]

GetViewProjection(c) ==
    IF c.dirtyFlag > 0 THEN
        LET v == GetView(c)
            c1 == [v.this EXCEPT !._viewproj = v.value]
            p == GetProjection(c1)
            c2 == [p.this EXCEPT !._viewproj = Multiply(p.this._viewproj, p.value)]
        IN  IF p.value.kind = "throw"
            THEN [this |-> p.this, value |-> p.value, calls |-> v.calls \o p.calls]
            ELSE [this |-> c2, value |-> c2._viewproj,
                  calls |-> v.calls \o p.calls \o <<"multiply">>]
    ELSE [this |-> c, value |-> c._viewproj, calls |-> <<>>]

(***************************************************************************)
(* Mutators of Camera.  A mutator takes the camera and its arguments and   *)
(* yields the camera afterwards.                                           *)
(***************************************************************************)

\* the dirty setter assigning the mask instead of or-ing into it
SetDirty_Assign(c, val) ==
    [c EXCEPT !.dirtyFlag = IF val THEN BitOr(World, View) ELSE 0]

SetDirty(c, val) ==
    [c EXCEPT !.dirtyFlag = BitOr(c.dirtyFlag, IF val THEN BitOr(World, View) ELSE 0)]




\* SetTranslation that recomposes the world matrix at once
SetTranslation_Eager(c, vec3) ==
    [c EXCEPT !._translation = vec3,
              !._world = Compose(vec3, c._orientation, One),
              !.dirtyFlag = BitOr(c.dirtyFlag, BitOr(World, View))]

\* SetTranslation that raises the World bit only
SetTranslation_WorldOnly(c, vec3) ==
    [c EXCEPT !._translation = vec3,
              !.dirtyFlag = BitOr(c.dirtyFlag, World)]

\* SetTranslation that forgets to raise the dirty bits
SetTranslation_NoDirty(c, vec3) ==
    [c EXCEPT !._translation = vec3]

SetTranslation(c, vec3) ==
    [c EXCEPT !._translation = vec3,
              !.dirtyFlag = BitOr(c.dirtyFlag, BitOr(World, View))]


\* SetOrientation that forgets to raise the dirty bits
SetOrientation_NoDirty(c, quat) ==
    [c EXCEPT !._orientation = quat]

SetOrientation(c, quat) ==
    [c EXCEPT !._orientation = quat,
              !.dirtyFlag = BitOr(c.dirtyFlag, BitOr(World, View))]


\* Translate that marks every matrix dirty
Translate_AllDirty(c, axis, distance) ==
    LET TEMP_VEC3 == ApplyQuaternion(axis, c._orientation)
    IN  [c EXCEPT !._translation = Add(c._translation, MultiplyScalar(TEMP_VEC3, distance)),
                  !.dirtyFlag = BitOr(c.dirtyFlag, All)]

Translate(c, axis, distance) ==
    LET TEMP_VEC3 == ApplyQuaternion(axis, c._orientation)
    IN  [c EXCEPT !._translation = Add(c._translation, MultiplyScalar(TEMP_VEC3, distance)),
                  !.dirtyFlag = BitOr(c.dirtyFlag, BitOr(World, View))]


\* Rotate that also turns the camera position about the origin
Rotate_Orbit(c, axis, angle) ==
    LET TEMP_QUAT == FromAxisAngle(axis, angle)
    IN  [c EXCEPT !._orientation = QuatMultiply(c._orientation, TEMP_QUAT),
                  !._translation = ApplyQuaternion(c._translation, TEMP_QUAT),
                  !.dirtyFlag = BitOr(c.dirtyFlag, BitOr(World, View))]

Rotate(c, axis, angle) ==
    LET TEMP_QUAT == FromAxisAngle(axis, angle)
    IN  [c EXCEPT !._orientation = QuatMultiply(c._orientation, TEMP_QUAT),
                  !.dirtyFlag = BitOr(c.dirtyFlag, BitOr(World, View))]

CameraLookAt(c, point) ==
    LET m == LookAt(c._translation, point, c._up)
    IN  [c EXCEPT !._orientation = FromRotationMatrix(m),
                  !.dirtyFlag = BitOr(c.dirtyFlag, BitOr(World, View))]

(***************************************************************************)
(* Setters of PerspectiveCamera.                                           *)
(***************************************************************************)
PerspectiveSetFov(c, val) ==
    [c EXCEPT !._fov = val, !.dirtyFlag = BitOr(c.dirtyFlag, Projection)]


\* the aspect setter marking every matrix dirty
PerspectiveSetAspect_AllDirty(c, val) ==
    [c EXCEPT !._aspect = val, !.dirtyFlag = BitOr(c.dirtyFlag, All)]

PerspectiveSetAspect(c, val) ==
    [c EXCEPT !._aspect = val, !.dirtyFlag = BitOr(c.dirtyFlag, Projection)]

PerspectiveSetZoom(c, val) ==
    [c EXCEPT !._zoom = val, !.dirtyFlag = BitOr(c.dirtyFlag, Projection)]

PerspectiveSetNear(c, val) ==
    [c EXCEPT !._near = val, !.dirtyFlag = BitOr(c.dirtyFlag, Projection)]

PerspectiveSetFar(c, val) ==
    [c EXCEPT !._far = val, !.dirtyFlag = BitOr(c.dirtyFlag, Projection)]

(***************************************************************************)
(* Setters of OrthographicCamera.                                          *)
(***************************************************************************)
OrthographicSetLeft(c, val) ==
    [c EXCEPT !._left = val, !.dirtyFlag = BitOr(c.dirtyFlag, Projection)]

OrthographicSetRight(c, val) ==
    [c EXCEPT !._right = val, !.dirtyFlag = BitOr(c.dirtyFlag, Projection)]

OrthographicSetTop(c, val) ==
    [c EXCEPT !._top = val, !.dirtyFlag = BitOr(c.dirtyFlag, Projection)]

OrthographicSetBottom(c, val) ==
    [c EXCEPT !._bottom = val, !.dirtyFlag = BitOr(c.dirtyFlag, Projection)]

OrthographicSetZoom(c, val) ==
    [c EXCEPT !._zoom = val, !.dirtyFlag = BitOr(c.dirtyFlag, Projection)]

OrthographicSetNear(c, val) ==
    [c EXCEPT !._near = val, !.dirtyFlag = BitOr(c.dirtyFlag, Projection)]

OrthographicSetFar(c, val) ==
    [c EXCEPT !._far = val, !.dirtyFlag = BitOr(c.dirtyFlag, Projection)]

(***************************************************************************)
(* Actions: one call of a getter or of a mutator by the camera's client.   *)
(***************************************************************************)
TransformMutators ==
    {"translation", "orientation", "translate", "rotate", "lookAt"}
ProjectionSetters ==
    {"fov", "aspect", "zoom", "near", "far", "left", "right", "top", "bottom"}

\* a read of getter g that yields r
Read(g, r) ==
    /\ nops < MaxOps
    /\ cam' = r.this
    /\ nops' = nops + 1
    /\ op' = g
    /\ ret' = r.value
    /\ calls' = r.calls
    /\ entryFlag' = cam.dirtyFlag
    /\ lastRet' = IF r.value.kind = "throw" \/ g \notin Getters THEN lastRet
                  ELSE [lastRet EXCEPT ![g] = r.value]
    /\ written' = IF r.value.kind = "throw" \/ g \notin Getters THEN written
                  ELSE [written EXCEPT ![g] = FALSE]
    /\ UNCHANGED <<pc, racedAt>>

\* a call of mutator name that leaves the camera as c2
Write(name, c2) ==
    /\ nops < MaxOps
    /\ cam' = c2
    /\ nops' = nops + 1
    /\ op' = name
    /\ ret' = Void
    /\ calls' = <<>>
    /\ entryFlag' = cam.dirtyFlag
    /\ lastRet' = lastRet
    /\ written' =
         IF name \in TransformMutators
         THEN [written EXCEPT !["world"] = TRUE, !["view"] = TRUE]
         ELSE IF name \in ProjectionSetters
         THEN [written EXCEPT !["projection"] = TRUE]
         ELSE written
    /\ UNCHANGED <<pc, racedAt>>

ReadWorld == Read("world", GetWorld(cam))
ReadView == Read("view", GetView(cam))
ReadProjection == Read("projection", GetProjection(cam))
ReadViewProjection == Read("viewProjection", GetViewProjection(cam))

WriteDirty == \E val \in BOOLEAN : Write(IF val THEN "dirtyTrue" ELSE "dirtyFalse", SetDirty(cam, val))
WriteTranslation == \E vec3 \in TranslationValues : Write("translation", SetTranslation(cam, vec3))
WriteOrientation == \E quat \in OrientationValues : Write("orientation", SetOrientation(cam, quat))
CallTranslate ==
    \E axis \in TranslateAxes, distance \in Distances :
        /\ Translate(cam, axis, distance)._translation \in Translations
        /\ Write("translate", Translate(cam, axis, distance))
CallRotate ==
    \E axis \in RotateAxes, angle \in Angles : Write("rotate", Rotate(cam, axis, angle))
CallLookAt == \E point \in LookAtPoints : Write("lookAt", CameraLookAt(cam, point))

IsPerspective == cam.variant = "PerspectiveCamera"
IsOrthographic == cam.variant = "OrthographicCamera"

WriteFov == IsPerspective /\ \E val \in FovValues : Write("fov", PerspectiveSetFov(cam, val))
WriteAspect == IsPerspective /\ \E val \in AspectValues : Write("aspect", PerspectiveSetAspect(cam, val))
WritePerspectiveZoom == IsPerspective /\ \E val \in ZoomValues : Write("zoom", PerspectiveSetZoom(cam, val))
WritePerspectiveNear == IsPerspective /\ \E val \in NearValues : Write("near", PerspectiveSetNear(cam, val))
WritePerspectiveFar == IsPerspective /\ \E val \in FarValues : Write("far", PerspectiveSetFar(cam, val))

WriteLeft == IsOrthographic /\ \E val \in LeftValues : Write("left", OrthographicSetLeft(cam, val))
WriteRight == IsOrthographic /\ \E val \in RightValues : Write("right", OrthographicSetRight(cam, val))
WriteTop == IsOrthographic /\ \E val \in TopValues : Write("top", OrthographicSetTop(cam, val))
WriteBottom == IsOrthographic /\ \E val \in BottomValues : Write("bottom", OrthographicSetBottom(cam, val))
WriteOrthographicZoom == IsOrthographic /\ \E val \in ZoomValues : Write("zoom", OrthographicSetZoom(cam, val))
WriteOrthographicNear == IsOrthographic /\ \E val \in NearValues : Write("near", OrthographicSetNear(cam, val))
WriteOrthographicFar == IsOrthographic /\ \E val \in FarValues : Write("far", OrthographicSetFar(cam, val))

Next ==
    \/ ReadWorld
    \/ ReadView
    \/ ReadProjection
    \/ ReadViewProjection
    \/ WriteDirty
    \/ WriteTranslation
    \/ WriteOrientation
    \/ CallTranslate
    \/ CallRotate
    \/ CallLookAt
    \/ WriteFov
    \/ WriteAspect
    \/ WritePerspectiveZoom
    \/ WritePerspectiveNear
    \/ WritePerspectiveFar
    \/ WriteLeft
    \/ WriteRight
    \/ WriteTop
    \/ WriteBottom
    \/ WriteOrthographicZoom
    \/ WriteOrthographicNear
    \/ WriteOrthographicFar

Spec == Init /\ [][Next]_vars


(***************************************************************************)
(* The getters statement by statement.  In RaceSpec a getter of world,     *)
(* view or projection runs one statement per step (test the bits,          *)
(* recompute, clear the bit) and the setters of translation, orientation   *)
(* and zoom may run between any two of its statements, as they would on a  *)
(* second thread sharing the camera.  pc holds the statements still to be  *)
(* executed: the last element is the next statement, and a nested call of  *)
(* the world getter is put on top of the statement of the view getter it   *)
(* returns to.                                                             *)
(***************************************************************************)
TestWorld(c) == BitAnd(c.dirtyFlag, World) # 0

\* the recomposition that forgets to store its result
ComposeWorld_Skip(c) == c

ComposeWorld(c) == [c EXCEPT !._world = Compose(c._translation, c._orientation, One)]
ClearWorld(c) == [c EXCEPT !.dirtyFlag = BitAndNot(c.dirtyFlag, World)]

TestView(c) == BitAnd(c.dirtyFlag, BitOr(World, View)) # 0
InverseWorld(c) == [c EXCEPT !._view = Inverse(c._world)]
ClearView(c) == [c EXCEPT !.dirtyFlag = BitAndNot(c.dirtyFlag, View)]

TestProjection(c) == BitAnd(c.dirtyFlag, Projection) # 0
ClearProjection(c) == [c EXCEPT !.dirtyFlag = BitAndNot(c.dirtyFlag, Projection)]

Top(stack) == stack[Len(stack)]
Pop(stack) == SubSeq(stack, 1, Len(stack) - 1)

\* a step of the getter in progress: the camera becomes c2, the statements
\* still to execute become stack, and value is returned if stack is empty
GetterStep(c2, stack, value) ==
    /\ cam' = c2
    /\ pc' = stack
    /\ ret' = IF stack = <<>> THEN value ELSE ret
    /\ UNCHANGED <<nops, op, calls, entryFlag, lastRet, written, racedAt>>

\* the client starts to read getter g
RaceCall ==
    \E g \in Getters :
        /\ pc = <<>>
        /\ nops < MaxOps
        /\ pc' = <<g \o ".test">>
        /\ nops' = nops + 1
        /\ op' = g
        /\ ret' = Void
        /\ entryFlag' = cam.dirtyFlag
        /\ UNCHANGED <<cam, calls, lastRet, written, racedAt>>

RaceWorldTest ==
    /\ pc # <<>> /\ Top(pc) = "world.test"
    /\ IF TestWorld(cam)
       THEN GetterStep(cam, Pop(pc) \o <<"world.compose">>, cam._world)
       ELSE GetterStep(cam, Pop(pc), cam._world)

RaceWorldCompose ==
    /\ pc # <<>> /\ Top(pc) = "world.compose"
    /\ GetterStep(ComposeWorld(cam), Pop(pc) \o <<"world.clear">>, cam._world)

RaceWorldClear ==
    /\ pc # <<>> /\ Top(pc) = "world.clear"
    /\ GetterStep(ClearWorld(cam), Pop(pc), cam._world)

RaceViewTest ==
    /\ pc # <<>> /\ Top(pc) = "view.test"
    /\ IF TestView(cam)
       THEN GetterStep(cam, <<"view.inverse", "world.test">>, cam._view)
       ELSE GetterStep(cam, <<>>, cam._view)

RaceViewInverse ==
    /\ pc # <<>> /\ Top(pc) = "view.inverse"
    /\ GetterStep(InverseWorld(cam), <<"view.clear">>, cam._view)

RaceViewClear ==
    /\ pc # <<>> /\ Top(pc) = "view.clear"
    /\ GetterStep(ClearView(cam), <<>>, cam._view)

RaceProjectionTest ==
    /\ pc # <<>> /\ Top(pc) = "projection.test"
    /\ IF TestProjection(cam)
       THEN GetterStep(cam, <<"projection.update">>, cam._projection)
       ELSE GetterStep(cam, <<>>, cam._projection)

RaceProjectionUpdate ==
    /\ pc # <<>> /\ Top(pc) = "projection.update"
    /\ LET u == UpdateProjection(cam)
       IN  IF u.value.kind = "throw"
           THEN GetterStep(u.this, <<>>, u.value)
           ELSE GetterStep(u.this, <<"projection.clear">>, u.value)

RaceProjectionClear ==
    /\ pc # <<>> /\ Top(pc) = "projection.clear"
    /\ GetterStep(ClearProjection(cam), <<>>, ClearProjection(cam)._projection)

\* a setter called by the other thread, possibly inside a getter
RaceWrite(name, c2) ==
    /\ nops < MaxOps
    /\ cam' = c2
    /\ nops' = nops + 1
    /\ racedAt' = IF pc # <<>> /\ racedAt = "none" THEN Top(pc) ELSE racedAt
    /\ op' = IF pc = <<>> THEN name ELSE op
    /\ UNCHANGED <<pc, ret, calls, entryFlag, lastRet, written>>

RaceWriteTranslation ==
    \E vec3 \in TranslationValues : RaceWrite("translation", SetTranslation(cam, vec3))
RaceWriteOrientation ==
    \E quat \in OrientationValues : RaceWrite("orientation", SetOrientation(cam, quat))
RaceWritePerspectiveZoom ==
    IsPerspective /\ \E val \in ZoomValues : RaceWrite("zoom", PerspectiveSetZoom(cam, val))
RaceWriteOrthographicZoom ==
    IsOrthographic /\ \E val \in ZoomValues : RaceWrite("zoom", OrthographicSetZoom(cam, val))

RaceNext ==
    \/ RaceCall
    \/ RaceWorldTest
    \/ RaceWorldCompose
    \/ RaceWorldClear
    \/ RaceViewTest
    \/ RaceViewInverse
    \/ RaceViewClear
    \/ RaceProjectionTest
    \/ RaceProjectionUpdate
    \/ RaceProjectionClear
    \/ RaceWriteTranslation
    \/ RaceWriteOrientation
    \/ RaceWritePerspectiveZoom
    \/ RaceWriteOrthographicZoom

RaceSpec == Init /\ [][RaceNext]_vars

(***************************************************************************)
(* Sanity of the arithmetic: in every state the orientation is a unit      *)
(* quaternion and the translation lies in the modelled range.              *)
(***************************************************************************)
TypeOK ==
    /\ cam._translation \in Translations
    /\ cam._orientation[1] * cam._orientation[1] + cam._orientation[2] * cam._orientation[2]
         + cam._orientation[3] * cam._orientation[3] + cam._orientation[4] * cam._orientation[4] = 1
    /\ cam.dirtyFlag \in 0..7
    /\ nops \in 0..MaxOps
    /\ (op = "view" => Multiply(ret, Compose(cam._translation, cam._orientation, One)) = Identity)

(***************************************************************************)
(* Properties.                                                             *)
(***************************************************************************)
Concrete == cam.variant # "Camera"
WorldView == BitOr(World, View)

\* compose(current translation, current orientation, unit scale)
ComposeNow == Compose(cam._translation, cam._orientation, One)

\* the projection matrix the camera's updateProjection builds from the
\* current projection parameters
ProjectionNow == UpdateProjection(cam).this._projection

\* the projection parameters of camera c
ProjectionParams(c) ==
    IF c.variant = "PerspectiveCamera"
    THEN <<c._fov, c._aspect, c._zoom, c._near, c._far>>
    ELSE IF c.variant = "OrthographicCamera"
    THEN <<c._left, c._right, c._top, c._bottom, c._zoom, c._near, c._far>>
    ELSE <<>>

\* C1: every read of world returns compose(translation, orientation, unit
\* scale) of the translation and orientation written last.
C1_WorldIsCurrent == op = "world" => ret = ComposeNow

\* a world read that recomposed after a mutation, away from the identity
C1_Witness ==
    /\ op = "world"
    /\ nops > 1
    /\ calls = <<"compose">>
    /\ ret # Identity

\* C2: every read of view returns the inverse of compose(translation,
\* orientation, unit scale) of the current translation and orientation.
C2_ViewIsCurrent == op = "view" => ret = Inverse(ComposeNow)

\* a view read entered with the View bit set and the World bit already
\* cleared by a world read made after the mutation
C2_Witness ==
    /\ op = "view"
    /\ BitAnd(entryFlag, WorldView) = View
    /\ written["world"] = FALSE
    /\ lastRet["world"] # Void
    /\ ret # Identity

\* C3: on a concrete camera every read of viewProjection returns the product
\* of the current view matrix and the current projection matrix.
C3_ViewProjectionIsCurrent ==
    (Concrete /\ op = "viewProjection")
        => ret = Multiply(Inverse(ComposeNow), ProjectionNow)

\* C4: on a concrete camera every read of projection returns the matrix that
\* updateProjection builds from the current parameters, and the read rebuilds
\* exactly when the Projection bit was set on entry.
C4_ProjectionIsCurrent ==
    (Concrete /\ op = "projection")
        => /\ ret = ProjectionNow
           /\ (calls = <<"updateProjection">>) <=> (BitAnd(entryFlag, Projection) # 0)
           /\ calls \in {<<>>, <<"updateProjection">>}

\* a projection read that rebuilt after a zoom write while World and View
\* were clean
C4_Witness ==
    /\ Concrete
    /\ op = "projection"
    /\ entryFlag = Projection
    /\ cam._zoom = 2
    /\ calls = <<"updateProjection">>

\* C5: on a concrete camera a read of viewProjection that directly follows a
\* read of viewProjection returns the same matrix, computes nothing and
\* changes nothing of the camera.
C5_SecondReadCached ==
    [][(Concrete /\ op = "viewProjection" /\ op' = "viewProjection")
          => (ret' = ret /\ calls' = <<>> /\ cam' = cam)]_vars

\* the second of two viewProjection reads on a new concrete camera
C5_Witness ==
    /\ Concrete
    /\ nops = 2
    /\ op = "viewProjection"
    /\ entryFlag = 0
    /\ calls = <<>>
    /\ ret.kind = "product"

\* C6: a transform mutator sets the World and View bits, leaves the
\* Projection bit and the projection parameters as they were; a projection
\* read with no parameter written since the previous projection read returns
\* what that read returned.
C6_TransformKeepsProjection ==
    [][/\ op' \in TransformMutators
           => /\ cam'.dirtyFlag = BitOr(cam.dirtyFlag, WorldView)
              /\ ProjectionParams(cam') = ProjectionParams(cam)
       /\ (Concrete /\ op' = "projection" /\ lastRet["projection"] # Void
             /\ ~written["projection"])
           => ret' = lastRet["projection"]]_vars

\* a transform mutator has acted on a clean camera after a projection read,
\* and a further read can follow
C6_Witness ==
    /\ Concrete
    /\ op \in TransformMutators
    /\ entryFlag = 0
    /\ lastRet["projection"] # Void
    /\ ~written["projection"]
    /\ nops < MaxOps

\* C7: a projection-parameter setter sets the Projection bit, leaves the
\* World and View bits, the translation and the orientation as they were; a
\* world (view) read with no translation or orientation written since the
\* previous world (view) read returns what that read returned.
C7_ProjectionKeepsTransform ==
    [][/\ op' \in ProjectionSetters
           => /\ cam'.dirtyFlag = BitOr(cam.dirtyFlag, Projection)
              /\ cam'._translation = cam._translation
              /\ cam'._orientation = cam._orientation
       /\ (op' = "world" /\ lastRet["world"] # Void /\ ~written["world"])
           => ret' = lastRet["world"]
       /\ (op' = "view" /\ lastRet["view"] # Void /\ ~written["view"])
           => ret' = lastRet["view"]]_vars

\* a projection-parameter setter has acted on a camera whose World and View
\* bits were clear, after a world and a view read, and a further read can
\* follow
C7_Witness ==
    /\ op \in ProjectionSetters
    /\ BitAnd(entryFlag, WorldView) = 0
    /\ lastRet["world"] # Void
    /\ lastRet["view"] # Void
    /\ ~written["world"]
    /\ ~written["view"]
    /\ nops < MaxOps

\* C8: dirty = true sets the World and View bits and leaves the Projection
\* bit, and the world (view) read that follows recomposes (re-inverts);
\* dirty = false changes nothing of the camera.
C8_DirtySetter ==
    [][/\ op' = "dirtyTrue" => cam' = [cam EXCEPT !.dirtyFlag = BitOr(cam.dirtyFlag, WorldView)]
       /\ op' = "dirtyFalse" => cam' = cam
       /\ (op = "dirtyTrue" /\ op' = "world") => calls' = <<"compose">>
       /\ (op = "dirtyTrue" /\ op' = "view") => calls' = <<"compose", "inverse">>]_vars

\* dirty = true has acted on a camera with no bit set
C8_Witness ==
    /\ op = "dirtyTrue"
    /\ entryFlag = 0
    /\ cam.dirtyFlag = WorldView
    /\ nops < MaxOps

\* C9: on a base Camera the Projection bit is set in every state and every
\* read of projection and of viewProjection throws 'Not Implemented'.
C9_BaseCameraThrows ==
    cam.variant = "Camera"
        => /\ BitAnd(cam.dirtyFlag, Projection) # 0
           /\ op \in {"projection", "viewProjection"} => ret = Throw("Not Implemented")

\* a viewProjection read on a base Camera after an earlier failed read
C9_Witness ==
    /\ cam.variant = "Camera"
    /\ op = "viewProjection"
    /\ nops = MaxOps
    /\ entryFlag = Projection
    /\ ret.kind = "throw"

\* C10: a new camera has zero translation, identity orientation, up = +Y and
\* all three dirty bits set, and its first world read recomposes and returns
\* the identity matrix.
C10_Construction ==
    /\ op = "new"
         => /\ cam._translation = <<0, 0, 0>>
            /\ cam._orientation = <<0, 0, 0, 1>>
            /\ cam._up = <<0, 1, 0>>
            /\ BitAnd(cam.dirtyFlag, World) # 0
            /\ BitAnd(cam.dirtyFlag, View) # 0
            /\ BitAnd(cam.dirtyFlag, Projection) # 0
    /\ (nops = 1 /\ op = "world")
         => /\ calls = <<"compose">>
            /\ ret = Identity

\* the first operation on a new camera was a world read
C10_Witness ==
    /\ nops = 1
    /\ op = "world"
    /\ cam.dirtyFlag = BitOr(View, Projection)

\* C11: on an orthographic camera every projection read returns the matrix
\* built from (left * zoom, right * zoom, top * zoom, bottom * zoom, near,
\* far) of the current parameters, and a projection read leaves the stored
\* parameters as they were.
C11_OrthographicZoomScalesBox ==
    [][(cam.variant = "OrthographicCamera" /\ op' = "projection")
          => /\ ret' = [kind |-> "orthographic",
                        e |-> <<cam'._left * cam'._zoom, cam'._right * cam'._zoom,
                                cam'._top * cam'._zoom, cam'._bottom * cam'._zoom,
                                cam'._near, cam'._far>>]
             /\ ProjectionParams(cam') = ProjectionParams(cam)]_vars

\* left = -1, right = 1, top = 1, bottom = -1, zoom = 2 read back as the box
\* -2, 2, 2, -2 with the default near and far
C11_Witness ==
    /\ cam.variant = "OrthographicCamera"
    /\ op = "projection"
    /\ calls = <<"updateProjection">>
    /\ <<cam._left, cam._right, cam._top, cam._bottom, cam._zoom>> = <<-1, 1, 1, -1, 2>>
    /\ ret.e = <<-2, 2, 2, -2, DefaultNear, DefaultFar>>

\* C12: on a concrete camera, World clear implies the cached world matrix is
\* compose(translation, orientation, unit scale); World and View clear
\* implies the cached view matrix is its inverse; Projection clear implies
\* the cached projection matrix is the one built from the current parameters.
C12_CleanBitsMeanCurrent ==
    Concrete
        => /\ BitAnd(cam.dirtyFlag, World) = 0 => cam._world = ComposeNow
           /\ BitAnd(cam.dirtyFlag, WorldView) = 0 => cam._view = Inverse(ComposeNow)
           /\ BitAnd(cam.dirtyFlag, Projection) = 0 => cam._projection = ProjectionNow

\* all bits clear on a camera moved away from its construction transform
C12_Witness ==
    /\ Concrete
    /\ cam.dirtyFlag = 0
    /\ cam._translation # Zero3
    /\ cam._orientation # IdentityQuat
    /\ cam._zoom = 2

\* C13: whenever the World bit is set the View bit is set: the World/View
\* bits are both set, or only View, or neither.
C13_WorldImpliesView ==
    /\ BitAnd(cam.dirtyFlag, World) # 0 => BitAnd(cam.dirtyFlag, View) # 0
    /\ BitAnd(cam.dirtyFlag, WorldView) \in {WorldView, View, 0}

\* a world read has cleared World and left View set, after a mutator raised
\* both on a clean camera
C13_Witness ==
    /\ op = "world"
    /\ BitAnd(entryFlag, WorldView) = WorldView
    /\ BitAnd(cam.dirtyFlag, WorldView) = View
    /\ nops > 2

\* C14: on a concrete camera a viewProjection read entered with any bit set
\* recombines exactly once, returns view * projection of the current state
\* and leaves all three bits clear.
C14_StaleReadRecombinesOnce ==
    (Concrete /\ op = "viewProjection" /\ entryFlag > 0)
        => /\ Len(SelectSeq(calls, LAMBDA x : x = "multiply")) = 1
           /\ ret = Multiply(Inverse(ComposeNow), ProjectionNow)
           /\ cam._viewproj = ret
           /\ cam.dirtyFlag = 0

\* a viewProjection read entered with only the Projection bit set, which the
\* nested projection read clears before the read returns
C14_Witness ==
    /\ Concrete
    /\ op = "viewProjection"
    /\ entryFlag = Projection
    /\ calls = <<"updateProjection", "multiply">>
    /\ cam.dirtyFlag = 0

Mutators == TransformMutators \cup ProjectionSetters \cup {"dirtyTrue", "dirtyFalse"}
AllGetters == Getters \cup {"viewProjection"}

\* the four cached matrices of camera c
CachedMatrices(c) == <<c._world, c._view, c._projection, c._viewproj>>

\* bit b is set in f
IsSet(f, b) == BitAnd(f, b) # 0

\* C15: no mutator changes a cached matrix (world, view, projection,
\* combined); a cached matrix changes only in a getter read.
C15_MutatorsAreLazy ==
    [][/\ op' \in Mutators => CachedMatrices(cam') = CachedMatrices(cam)
       /\ CachedMatrices(cam') # CachedMatrices(cam) => op' \in AllGetters]_vars

\* the translation setter has left a world matrix that no longer is the
\* composition of the current translation and orientation
C15_Witness ==
    /\ op = "translation"
    /\ BitAnd(entryFlag, WorldView) = 0
    /\ cam._world # ComposeNow
    /\ cam._view # Inverse(ComposeNow)

\* C16: a world read with World clear, a view read with World and View clear,
\* a projection read with Projection clear and a viewProjection read with all
\* bits clear return the cached matrix and change nothing of the camera.
C16_CacheHitIsPure ==
    [][/\ (op' = "world" /\ ~IsSet(cam.dirtyFlag, World))
           => (ret' = cam._world /\ cam' = cam)
       /\ (op' = "view" /\ ~IsSet(cam.dirtyFlag, WorldView))
           => (ret' = cam._view /\ cam' = cam)
       /\ (op' = "projection" /\ ~IsSet(cam.dirtyFlag, Projection))
           => (ret' = cam._projection /\ cam' = cam)
       /\ (op' = "viewProjection" /\ cam.dirtyFlag = 0)
           => (ret' = cam._viewproj /\ cam' = cam)]_vars

\* a viewProjection read served from the cache after the individual getters
\* cleared the bits a mutation had raised
C16_Witness ==
    /\ op = "viewProjection"
    /\ entryFlag = 0
    /\ calls = <<>>
    /\ ret = cam._viewproj
    /\ cam._translation # Zero3

\* C17: World is cleared only where the world getter recomposes, View only
\* where the view getter re-inverts, Projection only where the projection
\* getter rebuilds; a getter read sets no bit and a mutator clears no bit.
C17_BitsClearedByMatchingGetter ==
    [][/\ (IsSet(cam.dirtyFlag, World) /\ ~IsSet(cam'.dirtyFlag, World))
           => (op' \in AllGetters /\ \E i \in DOMAIN calls' : calls'[i] = "compose")
       /\ (IsSet(cam.dirtyFlag, View) /\ ~IsSet(cam'.dirtyFlag, View))
           => (op' \in AllGetters \ {"world"}
                 /\ \E i \in DOMAIN calls' : calls'[i] = "inverse")
       /\ (IsSet(cam.dirtyFlag, Projection) /\ ~IsSet(cam'.dirtyFlag, Projection))
           => (op' \in {"projection", "viewProjection"}
                 /\ \E i \in DOMAIN calls' : calls'[i] = "updateProjection")
       /\ op' \in AllGetters
           => BitAnd(cam'.dirtyFlag, cam.dirtyFlag) = cam'.dirtyFlag
       /\ op' \in Mutators
           => BitAnd(cam'.dirtyFlag, cam.dirtyFlag) = cam.dirtyFlag]_vars

\* a world read entered with World and View set has cleared World alone
C17_Witness ==
    /\ op = "world"
    /\ entryFlag = WorldView
    /\ cam.dirtyFlag = View
    /\ calls = <<"compose">>

\* C18: translate and the translation setter leave the orientation, rotate,
\* lookAt and the orientation setter leave the translation, and the up vector
\* is +Y in every state.
C18_MutatorsTouchOwnComponent ==
    [][/\ op' \in {"translate", "translation"} => cam'._orientation = cam._orientation
       /\ op' \in {"rotate", "lookAt", "orientation"} => cam'._translation = cam._translation
       /\ cam._up = <<0, 1, 0>>
       /\ cam'._up = cam._up]_vars

\* lookAt has turned a camera that stands away from the origin
C18_Witness ==
    /\ op = "lookAt"
    /\ cam._translation # Zero3
    /\ cam._orientation # IdentityQuat
    /\ cam._up = UnitY

\* a clear bit goes with a current cached matrix, for world, view and
\* projection
Coherent ==
    /\ ~IsSet(cam.dirtyFlag, World) => cam._world = ComposeNow
    /\ ~IsSet(cam.dirtyFlag, WorldView) => cam._view = Inverse(ComposeNow)
    /\ (Concrete /\ ~IsSet(cam.dirtyFlag, Projection)) => cam._projection = ProjectionNow

\* C19: when the statements of a getter run one by one, a clear bit goes with
\* a current matrix as long as no mutator has run inside a getter; a mutator
\* that runs between the recomputation and the clearing of the bit leaves a
\* stale matrix marked clean (C19_Witness).
C19_AtomicGettersStayCoherent == racedAt = "none" => Coherent

\* the translation setter ran between the recomposition and the clearing of
\* the World bit: the world getter has returned, World is clear and the
\* world matrix is not the composition of the current translation
C19_Witness ==
    /\ racedAt = "world.clear"
    /\ op = "world"
    /\ pc = <<>>
    /\ ~IsSet(cam.dirtyFlag, World)
    /\ cam._world # ComposeNow
    /\ ret = cam._world

====
